---- MODULE Spec2Model ----
(***************************************************************************)
(* color-mix: random colour sets, three "average colour" reductions        *)
(* (rgb_avg, less_mix, hsl_geo) and the rendering / file-writing driver    *)
(* of src/main.rs.                                                         *)
(*                                                                         *)
(* Two specifications:                                                     *)
(*   SpecFn  the three reductions called on an arbitrary bounded input     *)
(*           slice (hsl_geo's angle loop is stepped one iteration at a     *)
(*           time);                                                        *)
(*   Spec    main(): record generation, rendering and the file I/O chain.  *)
(*                                                                         *)
(* Floating point.  f32 arithmetic is not available to the checker.  The   *)
(* colour conversions of the css_colors crate are modelled by their        *)
(* formulas in exact integer arithmetic.  The circular mean of hsl_geo is  *)
(* modelled with a sine table scaled by 10000 and an error tolerance:      *)
(* every truncated angle that f32 rounding could produce is a possible     *)
(* outcome (a nondeterministic choice), never one picked outcome.          *)
(***************************************************************************)
EXTENDS Integers, Sequences, FiniteSets, TLC

VARIABLES
    \* ---- SpecFn: one call of a reduction --------------------------------
    fn_input,   \* the slice `input: &[RGB]`
    fn_name,    \* which reduction is running / has returned
    fn_pc,      \* "ready" | "loop" (inside hsl_geo's while) | "returned"
    angle,      \* hsl_geo's `let mut angle: i16`
    loops,      \* iterations of `while angle < 0` executed so far
    fn_res,     \* the Result<RGB, ComputeError> returned (or the panic)
    \* ---- Spec: main() ---------------------------------------------------
    pc,         \* position in main
    seed,       \* the random stream random_color() draws from
    fault,      \* which record's reductions hit a runtime fault, and which
    records,    \* `records: Vec<Record>` built so far
    color_css,  \* `color_css`, as the sequence of CSS rules
    html_content, \* `html_content`, as the sequence of HTML divs
    open,       \* file handles currently open
    warn_log,   \* the WARN lines written to stderr
    out,        \* the output directory: what exists in ./out
    io,         \* file-system operations attempted so far, in order
    exit        \* what main returned: still running, Ok(()) or Err of an op

fn_vars == <<fn_input, fn_name, fn_pc, angle, loops, fn_res>>
main_vars ==
    <<pc, seed, fault, records, color_css, html_content, warn_log, out, open,
      io, exit>>
vars == <<fn_input, fn_name, fn_pc, angle, loops, fn_res,
          pc, seed, fault, records, color_css, html_content, warn_log, out,
          open, io, exit>>

(***************************************************************************)
(* Bounds of the model                                                     *)
(***************************************************************************)
MaxInputLen == 3

(***************************************************************************)
(* Values                                                                  *)
(***************************************************************************)
u8_max == 255

RGB(r, g, b) == [r |-> r, g |-> g, b |-> b]

NoColor == [r |-> -1, g |-> -1, b |-> -1]

black == RGB(0, 0, 0)

ComputeError ==
    {"EmptyInput", "AverageOutOfRange", "AngleOutOfRange",
     "PercentageOutOfRange", "Panic"}

Ok(c) == [tag |-> "Ok", val |-> c, err |-> "None"]

Err(e) == [tag |-> "Err", val |-> NoColor, err |-> e]

\* A panic unwinding out of the call (what catch_unwind intercepts).
Panicked == [tag |-> "Panic", val |-> NoColor, err |-> "None"]

Abs(n) == IF n < 0 THEN -n ELSE n

\* f32::round of the rational n/d (d > 0): nearest, halves away from zero.
RoundDiv(n, d) ==
    IF n >= 0 THEN (2 * n + d) \div (2 * d)
    ELSE -((2 * (-n) + d) \div (2 * d))

Max3(a, b, c) == IF a >= b /\ a >= c THEN a ELSE IF b >= c THEN b ELSE c

Min3(a, b, c) == IF a <= b /\ a <= c THEN a ELSE IF b <= c THEN b ELSE c

(***************************************************************************)
(* css_colors (external crate): Ratio, Angle, RGB <-> HSL, mix             *)
(***************************************************************************)
\* Ratio::from_f32(n/d): asserts 0 <= n/d <= 1, stores round(255 * n/d).
Ratio_from_f32(n, d) == RoundDiv(u8_max * n, d)

\* Angle::new(degrees) asserts degrees < 360.
Angle_new_ok(degrees) == degrees >= 0 /\ degrees < 360

\* RGB::to_hsl: hue in whole degrees 0..359, s and l as 8-bit ratios.
to_hsl(c) ==
    IF c.r = c.g /\ c.g = c.b THEN [h |-> 0, s |-> 0, l |-> c.r]
    ELSE
        LET max == Max3(c.r, c.g, c.b)
            min == Min3(c.r, c.g, c.b)
            d   == max - min
            den == IF max + min < u8_max THEN max + min
                   ELSE 2 * u8_max - (max + min)
            hue == IF max = c.r THEN RoundDiv(60 * (c.g - c.b), d)
                   ELSE IF max = c.g THEN 120 + RoundDiv(60 * (c.b - c.r), d)
                   ELSE 240 + RoundDiv(60 * (c.r - c.g), d)
        IN [h |-> (hue + 360) % 360,
            s |-> Ratio_from_f32(d, den),
            l |-> RoundDiv(max + min, 2)]

\* One channel of HSL::to_rgb, hk the channel's hue offset in degrees.
\* t1, t2 are temp_1 and temp_2 scaled by 255 * 255.
hsl_channel(hk, t1, t2) ==
    LET n == IF hk < 60 THEN 60 * t2 + (t1 - t2) * hk
             ELSE IF hk < 180 THEN 60 * t1
             ELSE IF hk < 240 THEN 60 * t2 + (t1 - t2) * (240 - hk)
             ELSE 60 * t2
    IN RoundDiv(n, 60 * u8_max)

\* HSL::to_rgb.
hsl_to_rgb(h, s, l) ==
    IF s = 0 THEN RGB(l, l, l)
    ELSE
        LET t1 == IF 2 * l < u8_max THEN l * (u8_max + s)
                  ELSE u8_max * l + u8_max * s - l * s
            t2 == 2 * u8_max * l - t1
        IN RGB(hsl_channel((h + 120) % 360, t1, t2),
               hsl_channel(h, t1, t2),
               hsl_channel((h + 240) % 360, t1, t2))

\* One channel of RGBA::mix for two opaque colours: the left weight is the
\* given ratio, the right weight its complement; each product is rounded to
\* a Ratio, the sum is clamped.
mix_channel(a, b, ratio) ==
    LET v == RoundDiv(a * ratio, u8_max) + RoundDiv(b * (u8_max - ratio), u8_max)
    IN IF v > u8_max THEN u8_max ELSE v

\* acc.mix(c, ratio).to_rgb()
mix(acc, c, ratio) ==
    RGB(mix_channel(acc.r, c.r, ratio),
        mix_channel(acc.g, c.g, ratio),
        mix_channel(acc.b, c.b, ratio))

(***************************************************************************)
(* rgb_avg                                                                 *)
(***************************************************************************)
RECURSIVE Sum(_)
\* iter().sum::<u64>() (the sums stay far below 2^64 for any input that fits
\* in memory: 255 * len)
Sum(s) == IF Len(s) = 0 THEN 0 ELSE Head(s) + Sum(Tail(s))

\* Mutant of rgb_avg_body: g_avg is computed from r_sum (a copy-paste slip).
rgb_avg_body_swapped(input) ==
    IF Len(input) = 0 THEN Panicked
    ELSE
        LET r_sum == Sum([i \in 1..Len(input) |-> input[i].r])
            b_sum == Sum([i \in 1..Len(input) |-> input[i].b])
        IN Ok(RGB(r_sum \div Len(input), r_sum \div Len(input),
                  b_sum \div Len(input)))

\* Mutant of rgb_avg_body: the average is rounded to nearest, not floored.
rgb_avg_body_rounded(input) ==
    IF Len(input) = 0 THEN Panicked
    ELSE
        LET r_sum == Sum([i \in 1..Len(input) |-> input[i].r])
            g_sum == Sum([i \in 1..Len(input) |-> input[i].g])
            b_sum == Sum([i \in 1..Len(input) |-> input[i].b])
        IN Ok(RGB(RoundDiv(r_sum, Len(input)), RoundDiv(g_sum, Len(input)),
                  RoundDiv(b_sum, Len(input))))

\* rgb_avg after its emptiness check (lines 93-121).  Reached with an empty
\* slice, `r_sum / input.len() as u64` is an integer division by zero: a panic.
rgb_avg_body(input) ==
    IF Len(input) = 0 THEN Panicked
    ELSE
        LET r_sum == Sum([i \in 1..Len(input) |-> input[i].r])
            g_sum == Sum([i \in 1..Len(input) |-> input[i].g])
            b_sum == Sum([i \in 1..Len(input) |-> input[i].b])
            r_avg == r_sum \div Len(input)
            g_avg == g_sum \div Len(input)
            b_avg == b_sum \div Len(input)
        IN IF r_avg > u8_max THEN Err("AverageOutOfRange")
           ELSE IF g_avg > u8_max THEN Err("AverageOutOfRange")
           ELSE IF b_avg > u8_max THEN Err("AverageOutOfRange")
           ELSE Ok(RGB(r_avg, g_avg, b_avg))

\* Mutant of rgb_avg: the emptiness check is missing.
rgb_avg_unchecked(input) == rgb_avg_body(input)

rgb_avg(input) ==
    IF Len(input) = 0 THEN Err("EmptyInput") ELSE rgb_avg_body(input)

(***************************************************************************)
(* less_mix                                                                *)
(***************************************************************************)
RECURSIVE fold_mix(_, _, _)
\* input.iter().skip(1).fold(acc, |acc, c| acc.mix(c, ratio).to_rgb())
fold_mix(acc, rest, ratio) ==
    IF Len(rest) = 0 THEN acc
    ELSE fold_mix(mix(acc, Head(rest), ratio), Tail(rest), ratio)

\* Mutant of less_mix_body: the range check rejects the ratio 1.0 too.
less_mix_body_strict(input) ==
    IF Len(input) = 0 THEN Err("PercentageOutOfRange")
    ELSE IF 1 >= Len(input) THEN Err("PercentageOutOfRange")
    ELSE Ok(fold_mix(input[1], Tail(input), Ratio_from_f32(1, Len(input))))

\* less_mix after its emptiness check (lines 129-143).  percent is the
\* rational 1/len; with len = 0 the f32 division gives +inf, which fails the
\* range check before input[0] is evaluated.
less_mix_body(input) ==
    IF Len(input) = 0 THEN Err("PercentageOutOfRange")
    ELSE
        LET percent_num == 1
            percent_den == Len(input)
        IN IF percent_num < 0 \/ percent_num > percent_den
           THEN Err("PercentageOutOfRange")
           ELSE LET ratio == Ratio_from_f32(percent_num, percent_den)
                IN Ok(fold_mix(input[1], Tail(input), ratio))

less_mix(input) ==
    IF Len(input) = 0 THEN Err("EmptyInput") ELSE less_mix_body(input)

(***************************************************************************)
(* hsl_geo                                                                 *)
(***************************************************************************)
\* sin of 0..90 degrees, scaled by 10000
SinQ ==
<<
    0, 175, 349, 523, 698, 872, 1045, 1219, 1392, 1564, 1736, 1908, 2079,
    2250, 2419, 2588, 2756, 2924, 3090, 3256, 3420, 3584, 3746, 3907, 4067, 4226,
    4384, 4540, 4695, 4848, 5000, 5150, 5299, 5446, 5592, 5736, 5878, 6018, 6157,
    6293, 6428, 6561, 6691, 6820, 6947, 7071, 7193, 7314, 7431, 7547, 7660, 7771,
    7880, 7986, 8090, 8192, 8290, 8387, 8480, 8572, 8660, 8746, 8829, 8910, 8988,
    9063, 9135, 9205, 9272, 9336, 9397, 9455, 9511, 9563, 9613, 9659, 9703, 9744,
    9781, 9816, 9848, 9877, 9903, 9925, 9945, 9962, 9976, 9986, 9994, 9998, 10000 >>

\* degrees.to_radians().sin(), degrees a whole number
Sin(degrees) ==
    LET d == degrees % 360
    IN IF d <= 90 THEN SinQ[d + 1]
       ELSE IF d <= 180 THEN SinQ[180 - d + 1]
       ELSE IF d <= 270 THEN -SinQ[d - 180 + 1]
       ELSE -SinQ[360 - d + 1]

\* degrees.to_radians().cos()
Cos(degrees) == Sin(degrees + 90)

\* The table's unit (the scaled value of 1.0).
Unit == SinQ[91]

\* x_sum and y_sum of the hues of the input (lines 168-175)
x_sum(input) == Sum([i \in 1..Len(input) |-> Cos(to_hsl(input[i]).h)])

y_sum(input) == Sum([i \in 1..Len(input) |-> Sin(to_hsl(input[i]).h)])

\* The largest error of a cross product of the scaled vector sum with a unit
\* vector of the table (each table entry is off by at most 1/2).
CrossTol(n) == 2 * n * Unit

\* The vector (x, y), a sum of n unit vectors, may point into the closed
\* sector [d, d+1] degrees, d in 0..359.
InSector(x, y, n, d) ==
    /\ Cos(d) * y - Sin(d) * x >= -CrossTol(n)
    /\ Cos(d + 1) * y - Sin(d + 1) * x <= CrossTol(n)
    /\ Cos(d) * x + Sin(d) * y > 0

\* The vector sum is zero up to rounding: its direction is rounding noise.
Degenerate(x, y, n) == Abs(x) <= 2 * n /\ Abs(y) <= 2 * n

\* atan2 of a direction in sector d, in degrees, truncated toward zero by
\* `as i16`: d for the upper half plane, d + 1 - 360 for the lower.
TruncSector(d) == IF d < 180 THEN d ELSE d + 1 - 360

\* f32::atan2(y_avg, x_avg).to_degrees() as i16 (line 180): every value the
\* f32 computation can yield for the input.  Dividing both sums by len does
\* not change the direction.
Atan2Deg(input) ==
    LET x == x_sum(input)
        y == y_sum(input)
        n == Len(input)
    IN IF Degenerate(x, y, n) THEN -180..180
       ELSE {TruncSector(d) : d \in {e \in 0..359 : InSector(x, y, n, e)}}
            \cup (IF InSector(x, y, n, 179) /\ InSector(x, y, n, 180)
                  THEN {180, -180} ELSE {})

\* Mutant of LoopCond: `while angle <= 0`.
LoopCond_le(a) == a <= 0

\* The condition of `while angle < 0` (line 182)
LoopCond(a) == a < 0

\* The body of `while angle < 0 { angle += 360; }`, on an i16
LoopBody(a) ==
    LET v == a + 360 IN IF v > 32767 THEN v - 65536 ELSE v

RECURSIVE AngleLoop(_)
\* The whole while loop (lines 182-184)
AngleLoop(a) == IF LoopCond(a) THEN AngleLoop(LoopBody(a)) ELSE a

\* s_avg and l_avg (lines 151-159)
s_avg(input) == Sum([i \in 1..Len(input) |-> to_hsl(input[i]).s]) \div Len(input)

\* Mutant of l_avg: l_sum is summed over the saturations (`.s` left in place).
l_avg_of_s(input) == s_avg(input)

l_avg(input) == Sum([i \in 1..Len(input) |-> to_hsl(input[i]).l]) \div Len(input)

\* hsl_geo up to the atan2 (lines 147-166): the early return, if any
hsl_geo_pre(input) ==
    IF Len(input) = 0 THEN Err("EmptyInput")
    ELSE IF s_avg(input) > u8_max THEN Err("AverageOutOfRange")
    ELSE IF l_avg(input) > u8_max THEN Err("AverageOutOfRange")
    ELSE Ok(NoColor)

\* Mutant of hsl_geo_post: the range check reads `angle > 180`.
hsl_geo_post_180(input, a) ==
    IF a > 180 \/ a < 0 THEN Err("AngleOutOfRange")
    ELSE Ok(hsl_to_rgb(a, s_avg(input), l_avg(input)))

\* hsl_geo after the loop (lines 186-196), a the normalized angle
hsl_geo_post(input, a) ==
    IF a > 360 \/ a < 0 THEN Err("AngleOutOfRange")
    ELSE IF ~Angle_new_ok(a) THEN Panicked
    ELSE Ok(hsl_to_rgb(a, s_avg(input), l_avg(input)))

\* hsl_geo as one call, a0 the truncated atan2 angle
hsl_geo(input, a0) ==
    IF hsl_geo_pre(input).tag # "Ok" THEN hsl_geo_pre(input)
    ELSE hsl_geo_post(input, AngleLoop(a0))

(***************************************************************************)
(* SpecFn: a reduction called on a bounded slice                           *)
(***************************************************************************)
Palette ==
    {RGB(0, 0, 0), RGB(255, 255, 255), RGB(128, 128, 128),
     RGB(255, 0, 0), RGB(0, 255, 255), RGB(255, 1, 0),
     RGB(0, 0, 255), RGB(200, 100, 50), RGB(17, 230, 99)}

\* Colours with every channel at an edge or the middle of the 8-bit range
EdgeColors ==
    {RGB(r, g, b) : r, g, b \in {0, 1, 127, 128, 254, 255}}

\* The slices a reduction is called on: every slice of up to MaxInputLen
\* palette colours, and [c] and [c, c] for every edge colour c
Inputs ==
    UNION {[1..n -> Palette] : n \in 0..MaxInputLen}
    \cup {<<c>> : c \in EdgeColors}
    \cup {<<c, c>> : c \in EdgeColors}

\* main is not running
MainIdle ==
    /\ pc = "off" /\ seed = 0 /\ fault = <<0, {}>> /\ records = <<>>
    /\ color_css = <<>> /\ html_content = <<>> /\ warn_log = <<>>
    /\ out = {} /\ open = {} /\ io = <<>>
    /\ exit = [tag |-> "running", op |-> "none"]

FnInit ==
    /\ fn_input \in Inputs
    /\ fn_name = "none"
    /\ fn_pc = "ready"
    /\ angle = 0
    /\ loops = 0
    /\ fn_res = Ok(NoColor)
    /\ MainIdle

CallRgbAvg ==
    /\ fn_pc = "ready"
    /\ fn_name' = "rgb_avg"
    /\ fn_res' = rgb_avg(fn_input)
    /\ fn_pc' = "returned"
    /\ UNCHANGED <<fn_input, angle, loops>>
    /\ UNCHANGED main_vars

CallLessMix ==
    /\ fn_pc = "ready"
    /\ fn_name' = "less_mix"
    /\ fn_res' = less_mix(fn_input)
    /\ fn_pc' = "returned"
    /\ UNCHANGED <<fn_input, angle, loops>>
    /\ UNCHANGED main_vars

\* hsl_geo, lines 147-180: an early return, or into the while loop
HslGeoEnter ==
    /\ fn_pc = "ready"
    /\ fn_name' = "hsl_geo"
    /\ IF hsl_geo_pre(fn_input).tag # "Ok"
       THEN /\ fn_res' = hsl_geo_pre(fn_input)
            /\ fn_pc' = "returned"
            /\ UNCHANGED angle
       ELSE /\ \E a \in Atan2Deg(fn_input) : angle' = a
            /\ fn_pc' = "loop"
            /\ UNCHANGED fn_res
    /\ UNCHANGED <<fn_input, loops>>
    /\ UNCHANGED main_vars

\* one iteration of `while angle < 0`
HslGeoLoop ==
    /\ fn_pc = "loop"
    /\ LoopCond(angle)
    /\ angle' = LoopBody(angle)
    /\ loops' = loops + 1
    /\ UNCHANGED <<fn_input, fn_name, fn_pc, fn_res>>
    /\ UNCHANGED main_vars

\* loop exit, lines 186-196
HslGeoFinish ==
    /\ fn_pc = "loop"
    /\ ~LoopCond(angle)
    /\ fn_res' = hsl_geo_post(fn_input, angle)
    /\ fn_pc' = "returned"
    /\ UNCHANGED <<fn_input, fn_name, angle, loops>>
    /\ UNCHANGED main_vars

FnNext ==
    \/ CallRgbAvg
    \/ CallLessMix
    \/ HslGeoEnter
    \/ HslGeoLoop
    \/ HslGeoFinish

SpecFn == FnInit /\ [][FnNext]_vars

(***************************************************************************)
(* Record and its rendering                                                *)
(***************************************************************************)
\* A class name is the sequence of the pieces format! joins: the literal
\* text and the substituted values.  A selector is a sequence of class names.
Record(rid, input, avg, lmix, geo) ==
    [id |-> rid, input |-> input, rgb_avg |-> avg, less_mix |-> lmix,
     hsl_geo |-> geo]

\* One CSS rule: `<selector> { background-color: <color>; }`
CssRule(selector, color) ==
    [selector |-> selector, background_color |-> color]

\* Record::to_css: one rule per input colour, then the three results
to_css(rec) ==
    [n \in 1..Len(rec.input) |->
        CssRule(<< <<".record-", rec.id>>, <<".input-", ToString(n - 1)>> >>,
                rec.input[n])]
    \o << CssRule(<< <<".record-", rec.id>>, <<".rgb-avg">> >>, rec.rgb_avg),
          CssRule(<< <<".record-", rec.id>>, <<".less-mix">> >>, rec.less_mix),
          CssRule(<< <<".record-", rec.id>>, <<".hsl-geo">> >>, rec.hsl_geo) >>

\* One div: its nesting depth and the class names of its class attribute
Div(depth, classes) == [depth |-> depth, class |-> classes]

\* Record::to_html: the divs of the fragment in document order
to_html(rec) ==
    << Div(0, << <<"record">>, <<"record-", rec.id>> >>),
       Div(1, << <<"inputs">> >>) >>
    \o [n \in 1..Len(rec.input) |->
          Div(2, << <<"input">>, <<"input-", ToString(n - 1)>> >>)]
    \o << Div(1, << <<"outputs">> >>),
          Div(2, << <<"output">>, <<"rgb-avg">> >>),
          Div(2, << <<"output">>, <<"less-mix">> >>),
          Div(2, << <<"output">>, <<"hsl-geo">> >>) >>

(***************************************************************************)
(* main: the record generator                                              *)
(***************************************************************************)
max_len == 5

rounds == 10

\* iter::repeat(input_len).zip(0..rounds)
repeat_zip(input_len, n_rounds) == [i \in 1..n_rounds |-> <<input_len, i - 1>>]

RECURSIVE flat_map(_, _, _)
\* (lo..=hi).flat_map(|input_len| repeat(input_len).zip(0..rounds))
flat_map(lo, hi, n_rounds) ==
    IF lo > hi THEN <<>>
    ELSE repeat_zip(lo, n_rounds) \o flat_map(lo + 1, hi, n_rounds)

\* Mutant of create_iter: the exclusive range 2..max_len.
create_iter_exclusive(m, n_rounds) == flat_map(2, m - 1, n_rounds)

create_iter(m, n_rounds) == flat_map(2, m, n_rounds)

\* format!("{}-{}", input_len, round)
id(input_len, round) == ToString(input_len) \o "-" \o ToString(round)

\* The colours the random stream cycles through; `seed` is the position.
RandStream ==
    << RGB(255, 0, 0), RGB(0, 0, 0), RGB(90, 90, 90), RGB(255, 1, 0),
       RGB(255, 255, 255), RGB(17, 230, 99), RGB(60, 0, 0) >>

\* The i-th random_color() drawn from stream position sd (i from 1)
random_color(sd, i) == RandStream[((sd + i - 1) % Len(RandStream)) + 1]

\* The calls that can panic inside a reduction: less_mix and hsl_geo call
\* into css_colors (Ratio::from_f32 and Angle::new assert their ranges).
FaultPoints == {"less_mix", "hsl_geo"}

\* panic::catch_unwind(..).map_err(|_| ComputeError::Panic).and_then(|r| r)
catch_unwind(outcome) ==
    IF outcome.tag = "Panic" THEN Err("Panic") ELSE outcome

\* Mutant of unwrap_or_black: the fallback colour is white.
unwrap_or_white(result) ==
    IF result.tag = "Ok" THEN result.val ELSE RGB(u8_max, u8_max, u8_max)

\* .unwrap_or_else(|e| { eprintln!(..); black.clone() })
unwrap_or_black(result) == IF result.tag = "Ok" THEN result.val ELSE black

\* The WARN line of a failed reduction, none for a successful one
warn_line(result, name, input) ==
    IF result.tag = "Ok" THEN <<>>
    ELSE << [err |-> result.err, fn |-> name, input |-> input] >>

\* The faults that hit the k-th record
FaultsAt(k) == IF fault[1] = k THEN fault[2] ELSE {}

NumRecords == Len(create_iter(max_len, rounds))

\* What main has returned: tag "running", "Ok" or "Err" (of the failed op)
Exit(tag, op) == [tag |-> tag, op |-> op]

MainInit ==
    /\ pc = "gen"
    /\ seed \in 0..(Len(RandStream) - 1)
    /\ fault \in {<<0, {}>>} \cup
                 {<<k, F>> : k \in 1..NumRecords, F \in (SUBSET FaultPoints) \ {{}}}
    /\ records = <<>>
    /\ color_css = <<>>
    /\ html_content = <<>>
    /\ warn_log = <<>>
    /\ out = {}
    /\ open = {}
    /\ io = <<>>
    /\ exit = Exit("running", "none")
    /\ fn_input = <<>> /\ fn_name = "none" /\ fn_pc = "off"
    /\ angle = 0 /\ loops = 0 /\ fn_res = Ok(NoColor)

\* One iteration of the map closure (lines 223-254)
GenRecord ==
    /\ pc = "gen"
    /\ Len(records) < NumRecords
    /\ LET k == Len(records) + 1
           input_len == create_iter(max_len, rounds)[k][1]
           round == create_iter(max_len, rounds)[k][2]
           input == [i \in 1..input_len |-> random_color(seed, i)]
       IN \E a \in Atan2Deg(input) :
            LET r_avg == catch_unwind(rgb_avg(input))
                r_mix == catch_unwind(IF "less_mix" \in FaultsAt(k) THEN Panicked
                                      ELSE less_mix(input))
                r_geo == catch_unwind(IF "hsl_geo" \in FaultsAt(k) THEN Panicked
                                      ELSE hsl_geo(input, a))
            IN /\ records' = Append(records,
                                Record(id(input_len, round), input,
                                       unwrap_or_black(r_avg),
                                       unwrap_or_black(r_mix),
                                       unwrap_or_black(r_geo)))
               /\ warn_log' = warn_log \o warn_line(r_avg, "rgb_avg", input)
                                       \o warn_line(r_mix, "less_mix", input)
                                       \o warn_line(r_geo, "hsl_geo", input)
               /\ seed' = (seed + input_len) % Len(RandStream)
    /\ UNCHANGED <<pc, fault, color_css, html_content, out, open, io, exit>>
    /\ UNCHANGED fn_vars

RECURSIVE Concat(_)
\* iter().map(f).collect::<String>() of a sequence of rendered fragments
Concat(ss) == IF Len(ss) = 0 THEN <<>> ELSE Head(ss) \o Concat(Tail(ss))

\* collect() done; color_css and html_content (lines 257-276)
Render ==
    /\ pc = "gen"
    /\ Len(records) = NumRecords
    /\ color_css' = Concat([i \in 1..Len(records) |-> to_css(records[i])])
    /\ html_content' = Concat([i \in 1..Len(records) |-> to_html(records[i])])
    /\ pc' = "create_dir_all"
    /\ UNCHANGED <<seed, fault, records, warn_log, out, open, io, exit>>
    /\ UNCHANGED fn_vars

\* `op?` failed: main returns the error; the locals are dropped
Abort(op) ==
    /\ exit' = Exit("Err", op)
    /\ pc' = "exited"
    /\ open' = {}

\* fs::create_dir_all(out_dir)?
CreateDirAll ==
    /\ pc = "create_dir_all"
    /\ io' = Append(io, "create_dir_all")
    /\ \/ /\ out' = out \cup {"out/"}
          /\ pc' = "copy"
          /\ UNCHANGED <<open, exit>>
       \/ /\ Abort("create_dir_all")
          /\ UNCHANGED out
    /\ UNCHANGED <<seed, fault, records, color_css, html_content, warn_log>>
    /\ UNCHANGED fn_vars

\* Mutant of CopyIndexCss: the `?` is missing, a failed copy is ignored.
CopyIndexCss_unchecked ==
    /\ pc = "copy"
    /\ io' = Append(io, "copy")
    /\ \/ out' = out \cup {"out/index.css"}
       \/ UNCHANGED out
    /\ pc' = "create_colors_css"
    /\ UNCHANGED <<open, exit>>
    /\ UNCHANGED <<seed, fault, records, color_css, html_content, warn_log>>
    /\ UNCHANGED fn_vars

\* fs::copy(res_dir.join("index.css"), out_dir.join("index.css"))?
CopyIndexCss ==
    /\ pc = "copy"
    /\ io' = Append(io, "copy")
    /\ \/ /\ out' = out \cup {"out/index.css"}
          /\ pc' = "create_colors_css"
          /\ UNCHANGED <<open, exit>>
       \/ /\ Abort("copy")
          /\ UNCHANGED out
    /\ UNCHANGED <<seed, fault, records, color_css, html_content, warn_log>>
    /\ UNCHANGED fn_vars

\* File::create(out_dir.join("colors.css"))?
CreateColorsCss ==
    /\ pc = "create_colors_css"
    /\ io' = Append(io, "create_colors_css")
    /\ \/ /\ open' = open \cup {"out/colors.css"}
          /\ pc' = "write_colors_css"
          /\ UNCHANGED exit
       \/ Abort("create_colors_css")
    /\ UNCHANGED out
    /\ UNCHANGED <<seed, fault, records, color_css, html_content, warn_log>>
    /\ UNCHANGED fn_vars

\* color_css_file.write_all(color_css.as_bytes())?; drop(color_css_file)
WriteColorsCss ==
    /\ pc = "write_colors_css"
    /\ io' = Append(io, "write_colors_css")
    /\ \/ /\ out' = out \cup {"out/colors.css"}
          /\ open' = open \ {"out/colors.css"}
          /\ pc' = "create_index_html"
          /\ UNCHANGED exit
       \/ /\ Abort("write_colors_css")
          /\ UNCHANGED out
    /\ UNCHANGED <<seed, fault, records, color_css, html_content, warn_log>>
    /\ UNCHANGED fn_vars

\* File::create(out_dir.join("index.html"))?
CreateIndexHtml ==
    /\ pc = "create_index_html"
    /\ io' = Append(io, "create_index_html")
    /\ \/ /\ open' = open \cup {"out/index.html"}
          /\ pc' = "write_index_html"
          /\ UNCHANGED exit
       \/ Abort("create_index_html")
    /\ UNCHANGED out
    /\ UNCHANGED <<seed, fault, records, color_css, html_content, warn_log>>
    /\ UNCHANGED fn_vars

\* html_file.write_all(html.as_bytes())?; drop(html_file)
WriteIndexHtml ==
    /\ pc = "write_index_html"
    /\ io' = Append(io, "write_index_html")
    /\ \/ /\ out' = out \cup {"out/index.html"}
          /\ open' = open \ {"out/index.html"}
          /\ pc' = "return"
          /\ UNCHANGED exit
       \/ /\ Abort("write_index_html")
          /\ UNCHANGED out
    /\ UNCHANGED <<seed, fault, records, color_css, html_content, warn_log>>
    /\ UNCHANGED fn_vars

\* Ok(())
ReturnOk ==
    /\ pc = "return"
    /\ exit' = Exit("Ok", "none")
    /\ pc' = "exited"
    /\ UNCHANGED <<seed, fault, records, color_css, html_content, warn_log,
                   out, open, io>>
    /\ UNCHANGED fn_vars

Next ==
    \/ GenRecord
    \/ Render
    \/ CreateDirAll
    \/ CopyIndexCss
    \/ CreateColorsCss
    \/ WriteColorsCss
    \/ CreateIndexHtml
    \/ WriteIndexHtml
    \/ ReturnOk

Spec == MainInit /\ [][Next]_vars

(***************************************************************************)
(* Properties of the reductions (checked under SpecFn)                     *)
(***************************************************************************)
Returned(name) == fn_pc = "returned" /\ fn_name = name

ChanMin(input, ch) ==
    CHOOSE v \in {input[i][ch] : i \in 1..Len(input)} :
        \A w \in {input[i][ch] : i \in 1..Len(input)} : v <= w

ChanMax(input, ch) ==
    CHOOSE v \in {input[i][ch] : i \in 1..Len(input)} :
        \A w \in {input[i][ch] : i \in 1..Len(input)} : v >= w

ChanTotal(input, ch) == Sum([i \in 1..Len(input) |-> input[i][ch]])

\* C1: called on the empty slice, each of rgb_avg, less_mix and hsl_geo
\* returns Err(EmptyInput); none panics, and hsl_geo returns before its loop.
C1_EmptyInputError ==
    Len(fn_input) = 0 =>
        /\ fn_pc # "loop"
        /\ fn_pc = "returned" => fn_res = Err("EmptyInput")

C1_Witness ==
    /\ Len(fn_input) = 0
    /\ Returned("less_mix")
    /\ fn_res = Err("EmptyInput")

\* C2: rgb_avg of a one-element slice [c] returns Ok(c), every channel
\* unchanged.
C2_SingleMean ==
    (Returned("rgb_avg") /\ Len(fn_input) = 1) => fn_res = Ok(fn_input[1])

C2_Witness ==
    /\ Returned("rgb_avg")
    /\ fn_input = << RGB(200, 100, 50) >>
    /\ fn_res.val = RGB(200, 100, 50)

\* C3: less_mix of a one-element slice [c] returns Ok(c): the ratio 1/1
\* passes the range check and the fold makes no mix step.
C3_SingleMix ==
    (Returned("less_mix") /\ Len(fn_input) = 1) => fn_res = Ok(fn_input[1])

C3_Witness ==
    /\ Returned("less_mix")
    /\ fn_input = << RGB(17, 230, 99) >>
    /\ fn_res.tag = "Ok"

\* The slice is [c, c].
SamePair == Len(fn_input) = 2 /\ fn_input[1] = fn_input[2]

\* C4 as stated: for the slice [c, c] all three reductions return Ok(c).
C4_Original ==
    (fn_pc = "returned" /\ SamePair) => fn_res = Ok(fn_input[1])

\* C4 as amended: for [c, c], rgb_avg and less_mix return Ok(c); hsl_geo
\* returns Ok of HSL{h', s, l}.to_rgb(), where HSL{h, s, l} = c.to_hsl()
\* and h' is h or a neighbouring whole degree.
C4_SamePair ==
    (fn_pc = "returned" /\ SamePair) =>
        LET c == fn_input[1]
            hsl == to_hsl(c)
        IN IF fn_name = "hsl_geo"
           THEN \E dh \in {-1, 0, 1} :
                  fn_res = Ok(hsl_to_rgb((hsl.h + dh + 360) % 360, hsl.s, hsl.l))
           ELSE fn_res = Ok(c)

C4_Witness ==
    /\ Returned("hsl_geo")
    /\ SamePair
    /\ fn_input[1] = RGB(0, 0, 255)
    /\ fn_res = Ok(RGB(1, 1, 255))

\* The hues of the slice are 0 and 180 degrees: the vectors cancel.
OppositeHues ==
    /\ Len(fn_input) = 2
    /\ {to_hsl(fn_input[i]).h : i \in 1..2} = {0, 180}

C9_FloorMean ==
    (Returned("rgb_avg") /\ Len(fn_input) > 0) =>
        /\ fn_res.tag = "Ok"
        /\ \A ch \in {"r", "g", "b"} :
             LET v == fn_res.val[ch]
                 n == Len(fn_input)
             IN /\ n * v <= ChanTotal(fn_input, ch)
                /\ ChanTotal(fn_input, ch) < n * (v + 1)
                /\ ChanMin(fn_input, ch) <= v
                /\ v <= ChanMax(fn_input, ch)
                /\ v \in 0..255

C9_Witness ==
    /\ Returned("rgb_avg")
    /\ fn_input = << RGB(255, 0, 0), RGB(0, 255, 255) >>
    /\ fn_res = Ok(RGB(127, 127, 127))

\* C10: in hsl_geo the truncated atan2 angle is in -180..180; the while loop
\* runs at most once and ends; the angle handed to Angle::new is in 0..359
\* (never 360), and for a non-empty slice the call returns Ok.
C10_AngleNormalized ==
    fn_name = "hsl_geo" =>
        /\ loops <= 1
        /\ fn_pc = "loop" =>
             /\ loops = 0 => angle \in -180..180
             /\ loops = 1 => angle \in 180..359
        /\ (fn_pc = "returned" /\ Len(fn_input) > 0) =>
             /\ angle \in 0..359
             /\ fn_res.tag = "Ok"
             /\ fn_res # Err("AngleOutOfRange")

C10_Witness ==
    /\ Returned("hsl_geo")
    /\ fn_input = << RGB(0, 0, 255) >>
    /\ loops = 1
    /\ angle = 240
    /\ fn_res.tag = "Ok"

(***************************************************************************)
(* Properties of main (checked under Spec)                                 *)
(***************************************************************************)
\* Some class name of the sequence contains the identifier as a piece.
HasId(classes, rid) ==
    \E i \in 1..Len(classes) : \E j \in 1..Len(classes[i]) : classes[i][j] = rid

\* The records built so far are those of sizes 2..5, 10 rounds each, in
\* order, each with `size` input colours and the id "<size>-<round>".
RecordsInOrder ==
    \A k \in 1..Len(records) :
        LET size == 2 + ((k - 1) \div 10)
            round == (k - 1) % 10
        IN /\ size \in 2..5
           /\ records[k].id = ToString(size) \o "-" \o ToString(round)
           /\ Len(records[k].input) = size

\* Every selector of the record's CSS fragment contains its identifier.
CssCarriesId(rec) ==
    LET css == to_css(rec)
    IN /\ Len(css) > 0
       /\ \A i \in 1..Len(css) : HasId(css[i].selector, rec.id)

\* C5 as stated: 40 records, one per (size, round), each rendering a
\* non-empty CSS and HTML fragment with its identifier in every selector
\* and in every class name.
C5_Original ==
    /\ RecordsInOrder
    /\ pc # "gen" => Len(records) = 40
    /\ \A k \in 1..Len(records) :
         LET html == to_html(records[k])
         IN /\ CssCarriesId(records[k])
            /\ Len(html) > 0
            /\ \A i \in 1..Len(html) : HasId(html[i].class, records[k].id)

\* C5 as amended: 40 records, one per (size, round) in order; each renders a
\* non-empty CSS fragment whose every selector contains .record-<id>, and a
\* non-empty HTML fragment whose outer div has the class record-<id>, while
\* the class names of its inner divs do not contain the identifier.
C5_Records ==
    /\ RecordsInOrder
    /\ pc # "gen" =>
         /\ Len(records) = 40
         /\ Len(color_css) = 260
         /\ Len(html_content) = 380
    /\ \A k \in 1..Len(records) :
         LET rec == records[k]
             html == to_html(rec)
         IN /\ CssCarriesId(rec)
            /\ Len(to_css(rec)) = Len(rec.input) + 3
            /\ Len(html) = Len(rec.input) + 6
            /\ html[1].depth = 0
            /\ HasId(html[1].class, rec.id)
            /\ \A i \in 2..Len(html) :
                 /\ html[i].depth > 0
                 /\ ~HasId(html[i].class, rec.id)

C5_Witness ==
    /\ exit.tag = "Ok"
    /\ Len(records) = 40
    /\ records[40].id = "5-9"
    /\ Len(records[40].input) = 5
    /\ Len(color_css) = 260

\* What the guarded call of a reduction leaves in the record: the value of
\* an Ok outcome, black for an Err or a panic.
Guarded(outcome) == IF outcome.tag = "Ok" THEN outcome.val ELSE RGB(0, 0, 0)

\* The number of reductions of the first n records that were hit by a fault.
FaultCount(n) == IF fault[1] \in 1..n THEN Cardinality(fault[2]) ELSE 0

\* C6: a reduction that returns Err or panics leaves RGB(0,0,0) in its field
\* of the Record and nothing else changes: in the record hit by the failure
\* the other fields hold their computed values and the input is whole, one
\* warning is logged per failure, the record is built, and the number of
\* records and the size of the rendering are the same whether or not a
\* reduction failed.
C6_FallbackBlack ==
    /\ \A k \in {fault[1]} \cap (1..Len(records)) :
         LET rec == records[k]
             F == FaultsAt(k)
         IN /\ Len(rec.input) = create_iter(max_len, rounds)[k][1]
            /\ rec.rgb_avg = Guarded(rgb_avg(rec.input))
            /\ rec.less_mix =
                 Guarded(IF "less_mix" \in F THEN Panicked ELSE less_mix(rec.input))
            /\ \E a \in Atan2Deg(rec.input) :
                 rec.hsl_geo =
                   Guarded(IF "hsl_geo" \in F THEN Panicked
                           ELSE hsl_geo(rec.input, a))
    /\ Len(warn_log) = FaultCount(Len(records))
    /\ \A i \in 1..Len(warn_log) : warn_log[i].err = "Panic"
    /\ pc # "gen" =>
         /\ Len(records) = NumRecords
         /\ Len(color_css) = 260
         /\ Len(html_content) = 380

C6_Witness ==
    /\ exit.tag = "Ok"
    /\ fault[1] > 0
    /\ fault[2] = {"hsl_geo"}
    /\ records[fault[1]].hsl_geo = RGB(0, 0, 0)
    /\ records[fault[1]].rgb_avg # RGB(0, 0, 0)
    /\ records[fault[1]].less_mix # RGB(0, 0, 0)
    /\ Len(warn_log) = 1

\* The file-system operations of main, in program order.
IoOrder ==
    << "create_dir_all", "copy", "create_colors_css", "write_colors_css",
       "create_index_html", "write_index_html" >>

\* C7: the file operations run in program order and only after all records
\* are built and rendered; the first failure is what main returns, and no
\* later operation is attempted; main returns Ok only after all six
\* succeeded; no file handle is open when main has returned.
C7_IoAborts ==
    /\ Len(io) <= Len(IoOrder)
    /\ io = SubSeq(IoOrder, 1, Len(io))
    /\ Len(io) > 0 =>
         /\ Len(records) = NumRecords
         /\ Len(color_css) > 0
         /\ Len(html_content) > 0
    /\ exit.tag = "Ok" =>
         /\ io = IoOrder
         /\ out = {"out/", "out/index.css", "out/colors.css", "out/index.html"}
    /\ exit.tag = "Err" =>
         /\ Len(io) > 0
         /\ io[Len(io)] = exit.op
         /\ "out/index.html" \notin out
    /\ exit.tag = "running" => pc # "exited"
    /\ pc = "exited" => (exit.tag # "running" /\ open = {})
    /\ open \subseteq {"out/colors.css", "out/index.html"}
    /\ Cardinality(open) <= 1

C7_Witness ==
    /\ exit = Exit("Err", "write_colors_css")
    /\ io = SubSeq(IoOrder, 1, 4)
    /\ out = {"out/", "out/index.css"}
    /\ open = {}
====
